---- MODULE Spec2Model ----
(***************************************************************************)
(* deep-code-agent: the guarded command tool `terminal`                    *)
(* (src/src/deep_code_agent/tools/terminal.py) and its registration by     *)
(* `create_code_agent` (src/src/deep_code_agent/code_agent.py).            *)
(*                                                                         *)
(* Text conventions.  A command is a sequence of one-character strings, so *)
(* that lower(), strip() and the substring test `in` are computed          *)
(* character by character.  Every other text (captured streams, messages,  *)
(* the result) is a string built with \o, and str(int) is ToString.        *)
(***************************************************************************)
EXTENDS Integers, Sequences, FiniteSets, TLC

VARIABLES
    agent,        \* "none" | "built" | "failed": outcome of create_code_agent
    backend_type, \* the backend_type argument of the last create_code_agent
    tools,        \* names of the tools handed to create_deep_agent
    pc,           \* position of the terminal call: "idle" | "exec" | "waiting" | "returned" | "raised"
    command,      \* argument `command` of the call in progress
    timeout,      \* argument `timeout` of the call in progress
    attempted,    \* the call reached the execution statement (lines 38-45)
    spawned,      \* number of child processes the call created
    child,        \* "none" | "running" | "exited" | "killed"
    stdout,       \* captured standard output (result.stdout)
    stderr,       \* captured standard error (result.stderr)
    returncode,   \* result.returncode
    fault,        \* the exception raised inside the try block, or NoFault
    result        \* the text returned by the call

vars == <<agent, backend_type, tools, pc, command, timeout, attempted, spawned,
          child, stdout, stderr, returncode, fault, result>>

termvars == <<pc, command, timeout, attempted, spawned, child, stdout, stderr,
              returncode, fault, result>>

agentvars == <<agent, backend_type, tools>>

-----------------------------------------------------------------------------
(* Program constants                                                       *)

MAX_TIMEOUT == 300

DEFAULT_TIMEOUT == 30

-----------------------------------------------------------------------------
(* Bounds of the model                                                     *)

\* commands are concatenations of at most MaxPieces pieces
MaxPieces == 2

\* timeouts are taken within TimeoutMargin of 0 and of MAX_TIMEOUT
TimeoutMargin == 1

\* exit codes range over -1 .. MaxExit (a negative code is death by signal)
MaxExit == 1

-----------------------------------------------------------------------------
(* Characters and strings                                                  *)

\* str.lower() on the ASCII letters
LowerMap ==
    [A |-> "a", B |-> "b", C |-> "c", D |-> "d", E |-> "e", F |-> "f", G |-> "g",
     H |-> "h", I |-> "i", J |-> "j", K |-> "k", L |-> "l", M |-> "m", N |-> "n",
     O |-> "o", P |-> "p", Q |-> "q", R |-> "r", S |-> "s", T |-> "t", U |-> "u",
     V |-> "v", W |-> "w", X |-> "x", Y |-> "y", Z |-> "z"]

LowerChar(c) == IF c \in DOMAIN LowerMap THEN LowerMap[c] ELSE c

\* command.lower()
lower(s) == [i \in 1..Len(s) |-> LowerChar(s[i])]

\* the characters str.strip() removes
Whitespace == {" ", "\t", "\n", "\r", "\f"}

RECURSIVE lstrip(_)
lstrip(s) ==
    IF s # <<>> /\ Head(s) \in Whitespace THEN lstrip(Tail(s)) ELSE s

RECURSIVE rstrip(_)
rstrip(s) ==
    IF s # <<>> /\ s[Len(s)] \in Whitespace THEN rstrip(SubSeq(s, 1, Len(s) - 1)) ELSE s

\* command.strip()
strip(s) == rstrip(lstrip(s))

\* Python's `sub in s` on strings
Contains(sub, s) ==
    \E i \in 0..(Len(s) - Len(sub)) : SubSeq(s, i + 1, i + Len(sub)) = sub

\* the text of a character sequence (its use inside an f-string)
RECURSIVE Str(_)
Str(s) == IF s = <<>> THEN "" ELSE Head(s) \o Str(Tail(s))

\* sep.join(parts)
RECURSIVE Join(_, _)
Join(sep, parts) ==
    IF parts = <<>> THEN ""
    ELSE IF Len(parts) = 1 THEN parts[1]
    ELSE parts[1] \o sep \o Join(sep, Tail(parts))

-----------------------------------------------------------------------------
(* Input validation, terminal.py lines 22-35                               *)

dangerous_commands ==
    << <<"r", "m", " ", "-", "r", "f", " ", "/">>,   \* "rm -rf /"
       <<"f", "o", "r", "m", "a", "t">>,             \* "format"
       <<"d", "e", "l", " ", "/", "q">> >>           \* "del /q"

ErrTimeoutPositive(t) ==
    "Error: Timeout must be positive, got " \o ToString(t)

ErrTimeoutMax(t) ==
    "Error: Timeout " \o ToString(t) \o " exceeds maximum allowed "
        \o ToString(MAX_TIMEOUT) \o " seconds"

ErrEmpty == "Error: Command cannot be empty"

ErrDangerous(dangerous) ==
    "Error: Command contains potentially dangerous operation: " \o Str(dangerous)

\* `not command or not command.strip()`
IsEmptyCommand(c) == c = <<>> \/ strip(c) = <<>>

\* faulty variant of IsDangerous: the command is not lower-cased
IsDangerousCaseSensitive(dangerous, c) == Contains(dangerous, c)

\* `dangerous in command.lower()`
IsDangerous(dangerous, c) == Contains(dangerous, lower(c))

\* the loop `for dangerous in dangerous_commands`, from index i on: the index of
\* the first entry found in the command, 0 when the loop ends without a return
RECURSIVE ForDangerous(_, _)
ForDangerous(i, c) ==
    IF i > Len(dangerous_commands) THEN 0
    ELSE IF IsDangerous(dangerous_commands[i], c) THEN i
    ELSE ForDangerous(i + 1, c)

\* faulty variant of Validate: the command checks come before the timeout checks
ValidateCommandFirst(c, t) ==
    IF IsEmptyCommand(c) THEN [ok |-> FALSE, text |-> ErrEmpty]
    ELSE IF ForDangerous(1, c) # 0
         THEN [ok |-> FALSE, text |-> ErrDangerous(dangerous_commands[ForDangerous(1, c)])]
    ELSE IF t <= 0 THEN [ok |-> FALSE, text |-> ErrTimeoutPositive(t)]
    ELSE IF t > MAX_TIMEOUT THEN [ok |-> FALSE, text |-> ErrTimeoutMax(t)]
    ELSE [ok |-> TRUE, text |-> ""]

\* faulty variant of Validate: MAX_TIMEOUT itself is rejected
ValidateMaxExclusive(c, t) ==
    IF t <= 0 THEN [ok |-> FALSE, text |-> ErrTimeoutPositive(t)]
    ELSE IF t >= MAX_TIMEOUT THEN [ok |-> FALSE, text |-> ErrTimeoutMax(t)]
    ELSE IF IsEmptyCommand(c) THEN [ok |-> FALSE, text |-> ErrEmpty]
    ELSE IF ForDangerous(1, c) # 0
         THEN [ok |-> FALSE, text |-> ErrDangerous(dangerous_commands[ForDangerous(1, c)])]
    ELSE [ok |-> TRUE, text |-> ""]

\* the four checks in the order of the code: the text returned by the first
\* check that fails, or ok when execution is reached
Validate(c, t) ==
    IF t <= 0 THEN [ok |-> FALSE, text |-> ErrTimeoutPositive(t)]
    ELSE IF t > MAX_TIMEOUT THEN [ok |-> FALSE, text |-> ErrTimeoutMax(t)]
    ELSE IF IsEmptyCommand(c) THEN [ok |-> FALSE, text |-> ErrEmpty]
    ELSE IF ForDangerous(1, c) # 0
         THEN [ok |-> FALSE, text |-> ErrDangerous(dangerous_commands[ForDangerous(1, c)])]
    ELSE [ok |-> TRUE, text |-> ""]

-----------------------------------------------------------------------------
(* Result construction, terminal.py lines 47-61                            *)

Sentinel == "Command executed successfully with no output."

NonZeroSuffix == " (non-zero exit code indicates potential error)"

status_info(code) ==
    "Command executed with exit code: " \o ToString(code)
        \o (IF code # 0 THEN NonZeroSuffix ELSE "")

\* faulty variant of output_parts: the stderr segment precedes the stdout segment
output_parts_stderr_first(out, err, code) ==
    (IF err # "" THEN <<"STDERR:\n" \o err>> ELSE <<>>)
        \o (IF out # "" THEN <<out>> ELSE <<>>)
        \o <<status_info(code)>>

\* faulty variant of output_parts: no status line for a silent, successful command
output_parts_status_optional(out, err, code) ==
    (IF out # "" THEN <<out>> ELSE <<>>)
        \o (IF err # "" THEN <<"STDERR:\n" \o err>> ELSE <<>>)
        \o (IF out # "" \/ err # "" \/ code # 0 THEN <<status_info(code)>> ELSE <<>>)

output_parts(out, err, code) ==
    (IF out # "" THEN <<out>> ELSE <<>>)
        \o (IF err # "" THEN <<"STDERR:\n" \o err>> ELSE <<>>)
        \o <<status_info(code)>>

BuildResult(out, err, code) ==
    IF output_parts(out, err, code) # <<>>
    THEN Join("\n", output_parts(out, err, code))
    ELSE Sentinel

-----------------------------------------------------------------------------
(* Exceptions, terminal.py lines 63-72                                     *)

NoFault == [cls |-> "none", msg |-> ""]

\* the base class of each exception class that can arise in the try block
BaseOf ==
    [TimeoutExpired     |-> "SubprocessError",
     SubprocessError    |-> "Exception",
     FileNotFoundError  |-> "OSError",
     PermissionError    |-> "OSError",
     BlockingIOError    |-> "OSError",
     OSError            |-> "Exception",
     UnicodeDecodeError |-> "ValueError",
     ValueError         |-> "Exception",
     Exception          |-> "BaseException"]

\* isinstance(e, cls)
RECURSIVE IsInstance(_, _)
IsInstance(c, cls) ==
    \/ c = cls
    \/ c \in DOMAIN BaseOf /\ IsInstance(BaseOf[c], cls)

\* faulty variant of except_clauses: no catch-all clause
except_clauses_no_catch_all ==
    <<"TimeoutExpired", "FileNotFoundError", "PermissionError", "OSError">>

\* faulty variant of except_clauses: the OSError clause comes before its subclasses
except_clauses_oserror_first ==
    <<"TimeoutExpired", "OSError", "FileNotFoundError", "PermissionError", "Exception">>

\* the except clauses in the order they are written
except_clauses ==
    <<"TimeoutExpired", "FileNotFoundError", "PermissionError", "OSError", "Exception">>

\* the text each except clause returns
HandlerText(clause, c, t, e) ==
    CASE clause = "TimeoutExpired" ->
           "Error: Command timed out after " \o ToString(t) \o " seconds."
      [] clause = "FileNotFoundError" ->
           "Error: Command shell not found. Please ensure shell is available."
      [] clause = "PermissionError" ->
           "Error: Permission denied executing command '" \o Str(c) \o "'"
      [] clause = "OSError" ->
           "Error: OS error executing command '" \o Str(c) \o "': " \o e.msg
      [] clause = "Exception" ->
           "Error executing command '" \o Str(c) \o "': " \o e.msg

\* the first except clause, from index k on, that matches e; 0 when none does
RECURSIVE MatchClause(_, _)
MatchClause(k, e) ==
    IF k > Len(except_clauses) THEN 0
    ELSE IF IsInstance(e.cls, except_clauses[k]) THEN k
    ELSE MatchClause(k + 1, e)

\* str(e) of the faults the model raises
Exc(cls) ==
    [cls |-> cls,
     msg |-> CASE cls = "FileNotFoundError" -> "[Errno 2] No such file or directory"
               [] cls = "PermissionError" -> "[Errno 13] Permission denied"
               [] cls = "BlockingIOError" -> "[Errno 11] Resource temporarily unavailable"
               [] cls = "OSError" -> "[Errno 24] Too many open files"
               [] cls = "UnicodeDecodeError" -> "'utf-8' codec can't decode byte 0xff"
               [] cls = "ValueError" -> "embedded null byte"
               [] OTHER -> cls]

\* faults of os.getcwd() and of process creation: no child exists
PreSpawnFaults ==
    {Exc("FileNotFoundError"), Exc("PermissionError"), Exc("BlockingIOError"),
     Exc("OSError"), Exc("ValueError")}

\* faults while the output of a running child is read and decoded
PostSpawnFaults == {Exc("UnicodeDecodeError"), Exc("OSError")}

-----------------------------------------------------------------------------
(* Inputs                                                                  *)

Pieces ==
    { <<" ">>,
      <<"\n">>,
      <<"l", "s">>,
      <<"r", "m", " ", "-", "r", "f", " ", "/">>,
      <<"f", "o", "r", "m", "a", "t">>,
      <<"D", "e", "l", " ", "/", "Q">>,
      <<"F", "O", "R", "M", "A">>,
      <<"t">> }

RECURSIVE CommandsUpTo(_)
CommandsUpTo(n) ==
    IF n = 0 THEN {<<>>}
    ELSE CommandsUpTo(n - 1) \cup {c \o p : c \in CommandsUpTo(n - 1), p \in Pieces}

Commands == CommandsUpTo(MaxPieces)

Timeouts ==
    ((0 - TimeoutMargin) .. TimeoutMargin)
        \cup {DEFAULT_TIMEOUT}
        \cup ((MAX_TIMEOUT - TimeoutMargin) .. (MAX_TIMEOUT + TimeoutMargin))

Outputs == {"", "hello\n"}

ErrOutputs == {"", "warn: x\n"}

ExitCodes == (0 - 1) .. MaxExit

BackendTypes == {"state", "filesystem", "memory"}

-----------------------------------------------------------------------------
(* Initial state                                                           *)

Init ==
    /\ agent = "none"
    /\ backend_type = "state"
    /\ tools = {}
    /\ pc = "idle"
    /\ command = <<>>
    /\ timeout = DEFAULT_TIMEOUT
    /\ attempted = FALSE
    /\ spawned = 0
    /\ child = "none"
    /\ stdout = ""
    /\ stderr = ""
    /\ returncode = 0
    /\ fault = NoFault
    /\ result = ""

-----------------------------------------------------------------------------
(* create_code_agent, code_agent.py lines 26-98, as called by main         *)

\* faulty variant of ToolsFor: the tool is registered whatever the backend
ToolsForAnyBackend(bt) == {"terminal"}

\* the tools list chosen with the backend, lines 76-85
ToolsFor(bt) == IF bt = "filesystem" THEN {"terminal"} ELSE {}

\* outcomes of the calls create_code_agent makes: the directory is created or
\* mkdir raises (only reached for "filesystem" on a missing directory), and
\* create_deep_agent returns or raises
CreateOutcomes == {"ok", "mkdir_permission", "mkdir_oserror", "agent_error"}

CreateCodeAgent(bt, dir_exists, outcome) ==
    /\ agent = "none"
    /\ backend_type' = bt
    /\ IF bt = "filesystem" /\ ~dir_exists /\ outcome \in {"mkdir_permission", "mkdir_oserror"}
       THEN \* PermissionError / OSError re-raised, lines 64-67
            /\ agent' = "failed"
            /\ tools' = {}
       ELSE /\ tools' = ToolsFor(bt)
            /\ agent' = IF outcome = "agent_error" THEN "failed" ELSE "built"
    /\ UNCHANGED termvars

\* main returns: after a failed initialisation, or when the session ends
Shutdown ==
    /\ agent # "none"
    /\ pc = "idle"
    /\ agent' = "none"
    /\ backend_type' = "state"
    /\ tools' = {}
    /\ UNCHANGED termvars

-----------------------------------------------------------------------------
(* terminal, terminal.py lines 11-72                                       *)

\* an exception raised inside the try block meets the except clauses
Raise(e) ==
    /\ fault' = e
    /\ IF MatchClause(1, e) = 0
       THEN /\ pc' = "raised"
            /\ result' = ""
       ELSE /\ pc' = "returned"
            /\ result' = HandlerText(except_clauses[MatchClause(1, e)], command, timeout, e)

\* terminal(c, t): lines 22-35, up to the execution statement
Invoke(c, t) ==
    /\ command' = c
    /\ timeout' = t
    /\ IF Validate(c, t).ok
       THEN /\ pc' = "exec"
            /\ attempted' = TRUE
            /\ result' = ""
       ELSE /\ pc' = "returned"
            /\ attempted' = FALSE
            /\ result' = Validate(c, t).text
    /\ UNCHANGED <<agentvars, spawned, child, stdout, stderr, returncode, fault>>

\* the runtime calls the tool, which it can do only if the tool is among the
\* tools it was handed
Call ==
    /\ pc = "idle"
    /\ agent = "built"
    /\ "terminal" \in tools
    /\ \E c \in Commands, t \in Timeouts : Invoke(c, t)

\* os.getcwd() or the creation of the process raises, lines 38-45
ExecFault(e) ==
    /\ pc = "exec"
    /\ Raise(e)
    /\ UNCHANGED <<agentvars, command, timeout, attempted, spawned, child, stdout,
                   stderr, returncode>>

\* subprocess.run starts the shell
Spawn ==
    /\ pc = "exec"
    /\ pc' = "waiting"
    /\ child' = "running"
    /\ spawned' = spawned + 1
    /\ UNCHANGED <<agentvars, command, timeout, attempted, stdout, stderr, returncode,
                   fault, result>>

\* the shell exits within the timeout; its streams and exit code are captured
ChildExit(out, err, code) ==
    /\ pc = "waiting"
    /\ child = "running"
    /\ child' = "exited"
    /\ stdout' = out
    /\ stderr' = err
    /\ returncode' = code
    /\ UNCHANGED <<agentvars, pc, command, timeout, attempted, spawned, fault, result>>

\* subprocess.run returns the CompletedProcess; lines 47-61
Complete ==
    /\ pc = "waiting"
    /\ child = "exited"
    /\ pc' = "returned"
    /\ result' = BuildResult(stdout, stderr, returncode)
    /\ UNCHANGED <<agentvars, command, timeout, attempted, spawned, child, stdout,
                   stderr, returncode, fault>>

\* faulty variant of RunTimeout: the shell is left running when the timeout expires
RunTimeoutNoKill ==
    /\ pc = "waiting"
    /\ child = "running"
    /\ Raise(Exc("TimeoutExpired"))
    /\ UNCHANGED <<agentvars, command, timeout, attempted, spawned, child, stdout,
                   stderr, returncode>>

\* the timeout expires while the shell runs: subprocess.run kills and reaps
\* it, then raises TimeoutExpired; line 43 and lines 63-64
RunTimeout ==
    /\ pc = "waiting"
    /\ child = "running"
    /\ child' = "killed"
    /\ Raise(Exc("TimeoutExpired"))
    /\ UNCHANGED <<agentvars, command, timeout, attempted, spawned, stdout, stderr,
                   returncode>>

\* reading or decoding the streams raises: subprocess.run kills and reaps a
\* child that still runs, then re-raises; no CompletedProcess is returned, so
\* `result` of line 38 is never bound
ReadFault(e) ==
    /\ pc = "waiting"
    /\ child \in {"running", "exited"}
    /\ child' = IF child = "running" THEN "killed" ELSE child
    /\ stdout' = ""
    /\ stderr' = ""
    /\ returncode' = 0
    /\ Raise(e)
    /\ UNCHANGED <<agentvars, command, timeout, attempted, spawned>>

\* the call is over; the next call starts from nothing
Return ==
    /\ pc \in {"returned", "raised"}
    /\ pc' = "idle"
    /\ command' = <<>>
    /\ timeout' = DEFAULT_TIMEOUT
    /\ attempted' = FALSE
    /\ spawned' = 0
    /\ child' = "none"
    /\ stdout' = ""
    /\ stderr' = ""
    /\ returncode' = 0
    /\ fault' = NoFault
    /\ result' = ""
    /\ UNCHANGED agentvars

-----------------------------------------------------------------------------

Next ==
    \/ \E bt \in BackendTypes, ex \in BOOLEAN, o \in CreateOutcomes : CreateCodeAgent(bt, ex, o)
    \/ Shutdown
    \/ Call
    \/ \E e \in PreSpawnFaults : ExecFault(e)
    \/ Spawn
    \/ \E out \in Outputs, err \in ErrOutputs, code \in ExitCodes : ChildExit(out, err, code)
    \/ Complete
    \/ RunTimeout
    \/ \E e \in PostSpawnFaults : ReadFault(e)
    \/ Return

Spec == Init /\ [][Next]_vars

-----------------------------------------------------------------------------
(* Vocabulary of the properties, stated on the inputs of the call          *)

\* the command is empty or consists of whitespace only
AllWhitespace(c) == \A i \in 1..Len(c) : c[i] \in Whitespace

\* d occurs in c at some position, letter case ignored
ContainsIgnoringCase(d, c) ==
    \E i \in 1..(Len(c) - Len(d) + 1) :
        \A j \in 1..Len(d) : LowerChar(c[i + j - 1]) = d[j]

\* the denylist entries that occur in c
DenylistedIn(c) ==
    {k \in 1..Len(dangerous_commands) : ContainsIgnoringCase(dangerous_commands[k], c)}

TimeoutInRange(t) == 1 <= t /\ t <= 300

\* all four input checks pass
ChecksPass(c, t) ==
    TimeoutInRange(t) /\ ~AllWhitespace(c) /\ DenylistedIn(c) = {}

\* the texts of the four input-validation errors
ValidationErrors(t) ==
    {ErrTimeoutPositive(t), ErrTimeoutMax(t), ErrEmpty}
        \cup {ErrDangerous(dangerous_commands[k]) : k \in 1..Len(dangerous_commands)}

\* the call returned after the shell exited on its own
Completed == pc = "returned" /\ child = "exited" /\ fault = NoFault

TimeoutText(t) == "Error: Command timed out after " \o ToString(t) \o " seconds."

-----------------------------------------------------------------------------
(* C1: the call is total.  Whatever the command, the timeout and the       *)
(* outcome of the execution attempt, no fault leaves the call, and a call  *)
(* that is over has returned a text.                                       *)
C1_Total ==
    /\ pc # "raised"
    /\ pc = "returned" => (result \in STRING /\ result # "")

\* an unclassified fault (ValueError) was raised and the call returned a text
C1_Witness ==
    /\ pc = "returned"
    /\ fault.cls \in {"ValueError", "UnicodeDecodeError"}
    /\ result # ""

(* C2: the checks are applied in the order timeout <= 0, timeout > 300,    *)
(* blank command, denylisted command, and the result is the error text of  *)
(* the first check that fails, whatever the later checks would have said.  *)
C2_FirstFailingCheck ==
    pc = "returned" =>
        /\ timeout <= 0 => result = ErrTimeoutPositive(timeout)
        /\ timeout > 300 => result = ErrTimeoutMax(timeout)
        /\ (TimeoutInRange(timeout) /\ AllWhitespace(command)) => result = ErrEmpty
        /\ AllWhitespace(command) =>
               \A k \in 1..Len(dangerous_commands) :
                   result # ErrDangerous(dangerous_commands[k])
        /\ (TimeoutInRange(timeout) /\ ~AllWhitespace(command) /\ DenylistedIn(command) # {}) =>
               \E k \in DenylistedIn(command) : result = ErrDangerous(dangerous_commands[k])

\* a non-positive timeout together with a denylisted command: the timeout error wins
C2_Witness ==
    /\ pc = "returned"
    /\ timeout <= 0
    /\ DenylistedIn(command) # {}
    /\ result = ErrTimeoutPositive(timeout)

(* C3 as stated: a subprocess is spawned if and only if all four checks    *)
(* pass, never after a validation error, and at most once per call.        *)
C3_SpawnedIffChecksPass ==
    /\ spawned <= 1
    /\ pc = "returned" => (spawned = 1 <=> ChecksPass(command, timeout))
    /\ (pc = "returned" /\ result \in ValidationErrors(timeout)) => spawned = 0

(* C3 amended: the execution statement is reached if and only if all four  *)
(* checks pass (1 and 300 accepted); a subprocess is spawned only then, at *)
(* most once, and never in a call that returns a validation error; a call  *)
(* that reached execution and returned without a subprocess returned the   *)
(* text of a fault raised before the process existed.                      *)
C3_AttemptedIffChecksPass ==
    /\ spawned <= 1
    /\ pc # "idle" => (attempted <=> ChecksPass(command, timeout))
    /\ spawned = 1 => (attempted /\ ChecksPass(command, timeout))
    /\ (pc = "returned" /\ ~ChecksPass(command, timeout)) =>
           (spawned = 0 /\ result \in ValidationErrors(timeout))
    /\ (pc = "returned" /\ attempted /\ spawned = 0) => fault \in PreSpawnFaults

\* the largest accepted timeout: the call spawned its one subprocess and returned
C3_Witness ==
    /\ pc = "returned"
    /\ timeout = 300
    /\ attempted
    /\ spawned = 1

(* C4: with a timeout in 1..300 and a non-blank command that contains,     *)
(* letter case ignored, a denylisted substring, the result is the          *)
(* dangerous-operation text naming the earliest entry of the list that the *)
(* command contains, and nothing is executed.                              *)
C4_DenylistFirstInListOrder ==
    (pc = "returned" /\ TimeoutInRange(timeout) /\ ~AllWhitespace(command)
        /\ DenylistedIn(command) # {}) =>
        /\ \E k \in DenylistedIn(command) :
               /\ \A m \in DenylistedIn(command) : k <= m
               /\ result = ErrDangerous(dangerous_commands[k])
        /\ ~attempted
        /\ spawned = 0
        /\ child = "none"

\* "format" stands before "rm -rf /" in the command, and "rm -rf /" is named
C4_Witness ==
    /\ pc = "returned"
    /\ TimeoutInRange(timeout)
    /\ command = <<"f", "o", "r", "m", "a", "t">> \o <<"r", "m", " ", "-", "r", "f", " ", "/">>
    /\ result = "Error: Command contains potentially dangerous operation: rm -rf /"

(* C5: when the shell completes, the result is, joined by newlines and in  *)
(* this order: stdout if non-empty; "STDERR:" and stderr if stderr is      *)
(* non-empty; the status line, which is always last and carries the        *)
(* non-zero qualifier exactly when the exit code is not 0.                 *)
C5_ResultLayout ==
    Completed =>
        result =
            (IF stdout # "" THEN stdout \o "\n" ELSE "")
                \o (IF stderr # "" THEN "STDERR:\n" \o stderr \o "\n" ELSE "")
                \o "Command executed with exit code: " \o ToString(returncode)
                \o (IF returncode # 0
                    THEN " (non-zero exit code indicates potential error)"
                    ELSE "")

\* both streams non-empty and a non-zero exit code
C5_Witness ==
    /\ Completed
    /\ stdout # ""
    /\ stderr # ""
    /\ returncode # 0

(* C6: exit code 0 with both streams empty gives the status line alone,    *)
(* and the "no output" sentinel is the result of no call.                  *)
C6_StatusLineOnly ==
    /\ (Completed /\ returncode = 0 /\ stdout = "" /\ stderr = "") =>
           result = "Command executed with exit code: 0"
    /\ pc = "returned" => result # "Command executed successfully with no output."

\* a silent, successful command has returned
C6_Witness ==
    /\ Completed
    /\ returncode = 0
    /\ stdout = ""
    /\ stderr = ""

(* C7 as stated: when both captured streams are empty the result is the    *)
(* "no output" sentinel.                                                   *)
C7_SentinelWhenSilent ==
    (Completed /\ stdout = "" /\ stderr = "") =>
        result = "Command executed successfully with no output."

(* C8: a call that spawned a subprocess is over only after the subprocess  *)
(* has terminated: it exited on its own, or the timeout expired and it was *)
(* killed and reaped before the timeout text, which names the timeout, is  *)
(* returned.                                                               *)
C8_ChildTerminatedBeforeReturn ==
    /\ pc \in {"returned", "raised", "idle"} => child # "running"
    /\ (pc \in {"returned", "raised"} /\ spawned >= 1) => child \in {"exited", "killed"}
    /\ (pc = "returned" /\ fault.cls = "TimeoutExpired") =>
           (child = "killed" /\ result = TimeoutText(timeout))

\* the timeout expired: the child was killed and the timeout text returned
C8_Witness ==
    /\ pc = "returned"
    /\ spawned = 1
    /\ child = "killed"
    /\ result = TimeoutText(timeout)

(* C9: each execution-time fault gets the text of its most specific        *)
(* classification: timeout, shell not found, permission denied, any other  *)
(* OS-level fault, and the generic text only for everything else.          *)
C9_MostSpecificFaultText ==
    (pc = "returned" /\ fault # NoFault) =>
        result =
            IF fault.cls = "TimeoutExpired" THEN TimeoutText(timeout)
            ELSE IF fault.cls = "FileNotFoundError"
                 THEN "Error: Command shell not found. Please ensure shell is available."
            ELSE IF fault.cls = "PermissionError"
                 THEN "Error: Permission denied executing command '" \o Str(command) \o "'"
            ELSE IF IsInstance(fault.cls, "OSError")
                 THEN "Error: OS error executing command '" \o Str(command) \o "': " \o fault.msg
            ELSE "Error executing command '" \o Str(command) \o "': " \o fault.msg

\* a permission denial was reported by its own text, not by the OS-error text
C9_Witness ==
    /\ pc = "returned"
    /\ fault.cls = "PermissionError"
    /\ result = "Error: Permission denied executing command '" \o Str(command) \o "'"

(* C10 as stated: every agent built by create_code_agent has the terminal  *)
(* tool among the tools handed to the runtime, whatever the backend_type.  *)
C10_TerminalAlwaysRegistered ==
    agent = "built" => "terminal" \in tools

(* C10 amended: an agent built by create_code_agent has the terminal tool  *)
(* among its tools if and only if backend_type is "filesystem"; for        *)
(* "state", the default, the tools list handed to the runtime is empty.    *)
C10_TerminalIffFilesystem ==
    agent = "built" =>
        /\ "terminal" \in tools <=> backend_type = "filesystem"
        /\ backend_type = "state" => tools = {}

\* an agent was built on the filesystem backend and holds the tool
C10_Witness ==
    /\ agent = "built"
    /\ backend_type = "filesystem"
    /\ tools = {"terminal"}

====
